---- MODULE Spec2Model ----
(***************************************************************************)
(* The ffmpeg/ffprobe helpers of plugins.v2/ffmpegthumb2 (FfmpegHelper2,   *)
(* with the optimization switch) and plugins.v2/ffmpegthumbfree            *)
(* (FfmpegHelper, always optimized).                                       *)
(*                                                                         *)
(* One call runs at a time.  An action is the part of a handler between    *)
(* two blocking points: the call up to its first child process (or its     *)
(* immediate return), and the continuation after each child ends.          *)
(***************************************************************************)
EXTENDS Integers, Sequences, FiniteSets, TLC

VARIABLES
    pc,     \* "idle" | "running" (blocked on a child) | "returned" | "raised"
    call,   \* the arguments and environment of the call in progress
    child,  \* the child process the call is blocked on
    ran,    \* the child processes this call has spawned, in order
    ret     \* the value the call returned

vars == <<pc, call, child, ran, ret>>

(***************************************************************************)
(* Floating point.  A float is an integer number of grid units of          *)
(* 1/Unit second; every result is rounded to FloatBits significant bits,   *)
(* ties to even, as IEEE-754 binary64 does with 53 bits.                   *)
(***************************************************************************)
FloatBits == 12
FracBits == 1
MaxSegments == 2

Unit == 2 ^ FracBits

RECURSIVE BitLen(_)
BitLen(n) == IF n = 0 THEN 0 ELSE 1 + BitLen(n \div 2)

RoundPos(n) ==
    IF BitLen(n) <= FloatBits THEN n
    ELSE LET d == 2 ^ (BitLen(n) - FloatBits)
             q == n \div d
             r == n % d
             up == (2 * r > d) \/ (2 * r = d /\ q % 2 = 1)
         IN  (IF up THEN q + 1 ELSE q) * d

Fl(x) == IF x < 0 THEN 0 - RoundPos(0 - x) ELSE RoundPos(x)

FSub(a, b) == Fl(a - b)
FAdd(a, b) == Fl(a + b)
FMul60(a) == Fl(a * 60)
\* max(0.0, x)
FMax0(x) == IF x > 0 THEN x ELSE 0

(***************************************************************************)
(* Strings.  A time string is the sequence of its ':'-separated segments,  *)
(* so str.split(':') is the identity on the representation and "" is       *)
(* <<"">>.  NoneStr stands for a frames argument of None.                  *)
(***************************************************************************)
Tokens == {"00", "01", "02", "03", "45", "-5", "abc", ""}
NegativeTokens == {"-5"}

NoneStr == <<>>

Examples == { <<"01", "02", "03">>, <<"00", "10", "05">>, <<"00", "03", "01">> }

TimeStrings ==
    UNION { [1..n -> Tokens] : n \in 1..MaxSegments } \cup Examples

\* float(p): the value in grid units, or a ValueError
FloatOf(p) ==
    CASE p = "00" -> [ok |-> TRUE, val |-> 0]
      [] p = "01" -> [ok |-> TRUE, val |-> 1 * Unit]
      [] p = "02" -> [ok |-> TRUE, val |-> 2 * Unit]
      [] p = "03" -> [ok |-> TRUE, val |-> 3 * Unit]
      [] p = "05" -> [ok |-> TRUE, val |-> 5 * Unit]
      [] p = "10" -> [ok |-> TRUE, val |-> 10 * Unit]
      [] p = "45" -> [ok |-> TRUE, val |-> 45 * Unit]
      [] p = "-5" -> [ok |-> TRUE, val |-> (0 - 5) * Unit]
      [] OTHER    -> [ok |-> FALSE, val |-> 0]

RECURSIVE Fold(_, _)
Fold(parts, seconds) ==
    IF parts = <<>> THEN seconds
    ELSE Fold(Tail(parts), FAdd(FMul60(seconds), FloatOf(Head(parts)).val))

NoneVal == [none |-> TRUE, val |-> 0]
Some(x) == [none |-> FALSE, val |-> x]

\* _time_str_to_seconds: None when any float(p) raises
TimeStrToSeconds(time_str) ==
    IF \A i \in 1..Len(time_str) : FloatOf(time_str[i]).ok
    THEN Some(Fold(time_str, 0))
    ELSE NoneVal

(***************************************************************************)
(* Command lines.  An argv element is a literal, str() of a float, or the  *)
(* frames string passed through verbatim.                                  *)
(***************************************************************************)
Lit(s) == [kind |-> "lit", lit |-> s, num |-> 0, time |-> <<>>]
Num(x) == [kind |-> "num", lit |-> "", num |-> x, time |-> <<>>]
Raw(fr) == [kind |-> "time", lit |-> "", num |-> 0, time |-> fr]

DEFAULT_THREADS == 1
DEFAULT_PRESEEK_OFFSET == 2
DefaultFrames == <<"00", "03", "01">>

NoChild == [argv |-> <<>>, via |-> "none", timed |-> FALSE, at |-> "none"]
Child(argv, via, timed, at) ==
    [argv |-> argv, via |-> via, timed |-> timed, at |-> at]

NoRet == [kind |-> "pending", b |-> FALSE, num |-> 0]
RetBool(b) == [kind |-> "bool", b |-> b, num |-> 0]
RetNone == [kind |-> "None", b |-> FALSE, num |-> 0]
RetDict == [kind |-> "dict", b |-> FALSE, num |-> 0]
RetFloat(x) == [kind |-> "float", b |-> FALSE, num |-> x]

\* what a stretch of handler code ends in: a return, a spawn, or a raise
Return(v) == [ret |-> v, child |-> NoChild, raised |-> FALSE]
Spawn(ch) == [ret |-> NoRet, child |-> ch, raised |-> FALSE]
Raise == [ret |-> NoRet, child |-> NoChild, raised |-> TRUE]

(***************************************************************************)
(* FfmpegHelper2 (plugins.v2/ffmpegthumb2)                                 *)
(***************************************************************************)
\* os.getenv(ENV_FLAG_NAME, "1") != "0"; env is "unset" when not set
EnvOptEnabled(env) == (IF env = "unset" THEN "1" ELSE env) # "0"

\* _run_cmd: True on exit code 0; False on failure, timeout, exception
RunCmd(outcome) == outcome = "exit0"

\* SystemUtils.execute(cmd): the first line the command wrote to stdout
SystemUtilsExecute(out) == out

Optimized == <<Lit("ffmpeg"), Lit("-hide_banner"), Lit("-loglevel"),
               Lit("error"), Lit("-nostdin"), Lit("-y")>>

LegacyThumbCmd(c, frames) ==
    <<Lit("ffmpeg"), Lit("-i"), Lit(c.video_path), Lit("-ss"), Raw(frames),
      Lit("-vframes"), Lit("1"), Lit("-f"), Lit("image2"), Lit(c.out_path)>>

PreciseRawCmd(c, frames) ==
    Optimized \o <<Lit("-i"), Lit(c.video_path), Lit("-ss"), Raw(frames),
                   Lit("-vframes"), Lit("1"), Lit("-q:v"), Lit("2"),
                   Lit("-threads"), Lit(ToString(c.threads)), Lit(c.out_path)>>

PreciseCmd(c, secs) ==
    Optimized \o <<Lit("-i"), Lit(c.video_path), Lit("-ss"), Num(secs),
                   Lit("-vframes"), Lit("1"), Lit("-q:v"), Lit("2"),
                   Lit("-threads"), Lit(ToString(c.threads)), Lit(c.out_path)>>

TwoStageCmd(c, preseek_secs, delta) ==
    Optimized \o <<Lit("-ss"), Num(preseek_secs), Lit("-i"), Lit(c.video_path),
                   Lit("-ss"), Num(delta),
                   Lit("-vframes"), Lit("1"), Lit("-q:v"), Lit("2"),
                   Lit("-threads"), Lit(ToString(c.threads)), Lit(c.out_path)>>

FallbackCmd(c, secs) ==
    Optimized \o <<Lit("-i"), Lit(c.video_path), Lit("-ss"), Num(secs),
                   Lit("-vframes"), Lit("1"), Lit("-q:v"), Lit("2"),
                   Lit("-threads"), Lit(ToString(c.threads)), Lit(c.out_path)>>

\* frames = "00:03:01" if not frames
FramesOrDefault(frames) ==
    IF frames = NoneStr \/ frames = <<"">> THEN DefaultFrames ELSE frames

\* slip: the offset added instead of subtracted
PreseekSecsSignSlip(secs, preseek_offset) == FMax0(FAdd(secs, preseek_offset))
PreseekSecs(secs, preseek_offset) == FMax0(FSub(secs, preseek_offset))
Delta(secs, preseek_secs) == FSub(secs, preseek_secs)
\* slip: the offset's own sign is not looked at
SkipTwoStageNoOffset(preseek_secs, preseek_offset) == preseek_secs <= 0
SkipTwoStage(preseek_secs, preseek_offset) ==
    preseek_secs <= 0 \/ preseek_offset <= 0

\* enable_optimizations, or the environment when it is None
Effective(c) ==
    IF c.enable_optimizations = "None" THEN EnvOptEnabled(c.env)
    ELSE c.enable_optimizations = "True"

PathsMissing(a, b) == a = "" \/ b = ""
\* slip: the result of shutil.which is not looked at
ToolMissingNever(found) == FALSE
ToolMissing(found) == ~found

OptimizedThumb(c, frames) ==
    LET secs == TimeStrToSeconds(frames)
        preseek_secs == PreseekSecs(secs.val, c.preseek_offset)
        delta == Delta(secs.val, preseek_secs)
    IN  IF secs.none
        THEN Spawn(Child(PreciseRawCmd(c, frames), "_run_cmd", TRUE, "single"))
        ELSE IF SkipTwoStage(preseek_secs, c.preseek_offset)
        THEN Spawn(Child(PreciseCmd(c, secs.val), "_run_cmd", TRUE, "single"))
        ELSE Spawn(Child(TwoStageCmd(c, preseek_secs, delta),
                         "_run_cmd", TRUE, "two_stage"))

\* get_thumb up to its first child process
GetThumbStart(c) ==
    LET frames == FramesOrDefault(c.frames)
    IN  IF PathsMissing(c.video_path, c.out_path) THEN Return(RetBool(FALSE))
        ELSE IF ToolMissing(c.found) THEN Return(RetBool(FALSE))
        ELSE IF ~Effective(c)
        THEN Spawn(Child(LegacyThumbCmd(c, frames),
                         "SystemUtils.execute", FALSE, "legacy_thumb"))
        ELSE OptimizedThumb(c, frames)

\* slip: a failed two-stage attempt is reported without the fallback
GetThumbResumeNoFallback(c, at, outcome, out) ==
    IF at = "legacy_thumb" THEN Return(RetBool(SystemUtilsExecute(out) # ""))
    ELSE Return(RetBool(RunCmd(outcome)))

\* get_thumb after the child it waited for ended
GetThumbResume(c, at, outcome, out) ==
    CASE at = "legacy_thumb" -> Return(RetBool(SystemUtilsExecute(out) # ""))
      [] at = "single" -> Return(RetBool(RunCmd(outcome)))
      [] at = "two_stage" ->
            IF RunCmd(outcome) THEN Return(RetBool(TRUE))
            ELSE Spawn(Child(
                     FallbackCmd(c, TimeStrToSeconds(FramesOrDefault(c.frames)).val),
                     "_run_cmd", TRUE, "fallback"))
      [] at = "fallback" -> Return(RetBool(RunCmd(outcome)))

\* the "None" index stands for the argument left at None
IndexGiven(index) == index # "None"
IndexTruthy(index) == index # "None" /\ index # ""

LegacyHead == <<Lit("ffmpeg"), Lit("-hide_banner"), Lit("-loglevel"),
                Lit("warning"), Lit("-y")>>

LegacyWavCmd(c) ==
    LegacyHead \o <<Lit("-i"), Lit(c.video_path)>>
      \o (IF IndexTruthy(c.index)
          THEN <<Lit("-map"), Lit("0:a:" \o c.index)>> ELSE <<>>)
      \o <<Lit("-acodec"), Lit("pcm_s16le"), Lit("-ac"), Lit("1"),
           Lit("-ar"), Lit("16000"), Lit(c.out_path)>>

WavCmd(c) ==
    Optimized \o <<Lit("-i"), Lit(c.video_path), Lit("-vn")>>
      \o (IF IndexGiven(c.index)
          THEN <<Lit("-map"), Lit("0:a:" \o c.index)>> ELSE <<>>)
      \o <<Lit("-acodec"), Lit("pcm_s16le"), Lit("-ac"), Lit("1"),
           Lit("-ar"), Lit("16000"),
           Lit("-threads"), Lit(ToString(c.threads)), Lit(c.out_path)>>

\* extract_wav up to its child process
ExtractWavStart(c) ==
    IF PathsMissing(c.video_path, c.out_path) THEN Return(RetBool(FALSE))
    ELSE IF ToolMissing(c.found) THEN Return(RetBool(FALSE))
    ELSE IF ~Effective(c)
    THEN Spawn(Child(LegacyWavCmd(c), "subprocess.run", FALSE, "legacy_run"))
    ELSE Spawn(Child(WavCmd(c), "_run_cmd", TRUE, "single"))

\* subprocess.run(command).returncode == 0, outside any try
LegacyRunResume(outcome) ==
    IF outcome = "launch_error" THEN Raise
    ELSE Return(RetBool(outcome = "exit0"))

ExtractWavResume(c, at, outcome, out) ==
    CASE at = "legacy_run" -> LegacyRunResume(outcome)
      [] at = "single" -> Return(RetBool(RunCmd(outcome)))

ProbeCmd(c) ==
    <<Lit("ffprobe"), Lit("-v"), Lit("quiet"), Lit("-print_format"),
      Lit("json"), Lit("-show_format"), Lit("-show_streams"),
      Lit(c.video_path)>>

\* get_metadata up to its child process
GetMetadataStart(c) ==
    IF c.video_path = "" THEN Return(RetNone)
    ELSE IF ToolMissing(c.found) THEN Return(RetNone)
    ELSE Spawn(Child(ProbeCmd(c), "subprocess.run", TRUE, "probe"))

\* slip: the return code is not looked at
GetMetadataResumeAnyExit(c, at, outcome, out) ==
    IF out = "json" THEN Return(RetDict) ELSE Return(RetNone)

\* json.loads(stdout) raises on anything but JSON; the except returns None
GetMetadataResume(c, at, outcome, out) ==
    IF outcome = "exit0" /\ out = "json" THEN Return(RetDict)
    ELSE Return(RetNone)

LegacySubCmd(c) ==
    LegacyHead \o <<Lit("-i"), Lit(c.video_path)>>
      \o (IF IndexTruthy(c.index)
          THEN <<Lit("-map"), Lit("0:s:" \o c.index)>> ELSE <<>>)
      \o <<Lit(c.out_path)>>

SubCmd(c) ==
    Optimized \o <<Lit("-i"), Lit(c.video_path)>>
      \o (IF IndexGiven(c.index)
          THEN <<Lit("-map"), Lit("0:s:" \o c.index)>> ELSE <<>>)
      \o <<Lit("-c:s"), Lit("copy"),
           Lit("-threads"), Lit(ToString(c.threads)), Lit(c.out_path)>>

\* extract_subtitle up to its child process
ExtractSubtitleStart(c) ==
    IF PathsMissing(c.video_path, c.out_path) THEN Return(RetBool(FALSE))
    ELSE IF ToolMissing(c.found) THEN Return(RetBool(FALSE))
    ELSE IF ~Effective(c)
    THEN Spawn(Child(LegacySubCmd(c), "subprocess.run", FALSE, "legacy_run"))
    ELSE Spawn(Child(SubCmd(c), "_run_cmd", TRUE, "single"))

ExtractSubtitleResume(c, at, outcome, out) ==
    CASE at = "legacy_run" -> LegacyRunResume(outcome)
      [] at = "single" -> Return(RetBool(RunCmd(outcome)))

(***************************************************************************)
(* FfmpegHelper (plugins.v2/ffmpegthumbfree): no switch, always optimized  *)
(***************************************************************************)
RECURSIVE FoldFree(_, _)
FoldFree(parts, seconds) ==
    IF parts = <<>> THEN seconds
    ELSE FoldFree(Tail(parts), FAdd(FMul60(seconds), FloatOf(Head(parts)).val))

\* this file's own _time_str_to_seconds
TimeStrToSecondsFree(time_str) ==
    IF \A i \in 1..Len(time_str) : FloatOf(time_str[i]).ok
    THEN Some(FoldFree(time_str, 0))
    ELSE NoneVal

RunCmdFree(outcome) == outcome = "exit0"

OptimizedFree == <<Lit("ffmpeg"), Lit("-hide_banner"), Lit("-loglevel"),
                   Lit("error"), Lit("-nostdin"), Lit("-y")>>

ThumbTailFree(c) ==
    <<Lit("-vframes"), Lit("1"), Lit("-q:v"), Lit("2"),
      Lit("-threads"), Lit(ToString(c.threads)), Lit(c.out_path)>>

PreciseRawCmdFree(c, frames) ==
    OptimizedFree \o <<Lit("-i"), Lit(c.video_path), Lit("-ss"), Raw(frames)>>
      \o ThumbTailFree(c)

PreciseCmdFree(c, secs) ==
    OptimizedFree \o <<Lit("-i"), Lit(c.video_path), Lit("-ss"), Num(secs)>>
      \o ThumbTailFree(c)

TwoStageCmdFree(c, preseek_secs, delta) ==
    OptimizedFree \o <<Lit("-ss"), Num(preseek_secs), Lit("-i"),
                       Lit(c.video_path), Lit("-ss"), Num(delta)>>
      \o ThumbTailFree(c)

FallbackCmdFree(c, secs) ==
    OptimizedFree \o <<Lit("-i"), Lit(c.video_path), Lit("-ss"), Num(secs)>>
      \o ThumbTailFree(c)

GetThumbFreeStart(c) ==
    LET frames == IF c.frames = NoneStr \/ c.frames = <<"">>
                  THEN DefaultFrames ELSE c.frames
        secs == TimeStrToSecondsFree(frames)
        preseek_secs == FMax0(FSub(secs.val, c.preseek_offset))
        delta == FSub(secs.val, preseek_secs)
    IN  IF c.video_path = "" \/ c.out_path = "" THEN Return(RetBool(FALSE))
        ELSE IF ~c.found THEN Return(RetBool(FALSE))
        ELSE IF secs.none
        THEN Spawn(Child(PreciseRawCmdFree(c, frames), "_run_cmd", TRUE, "single"))
        ELSE IF preseek_secs <= 0 \/ c.preseek_offset <= 0
        THEN Spawn(Child(PreciseCmdFree(c, secs.val), "_run_cmd", TRUE, "single"))
        ELSE Spawn(Child(TwoStageCmdFree(c, preseek_secs, delta),
                         "_run_cmd", TRUE, "two_stage"))

GetThumbFreeResume(c, at, outcome, out) ==
    LET frames == IF c.frames = NoneStr \/ c.frames = <<"">>
                  THEN DefaultFrames ELSE c.frames
    IN  CASE at = "single" -> Return(RetBool(RunCmdFree(outcome)))
          [] at = "two_stage" ->
                IF RunCmdFree(outcome) THEN Return(RetBool(TRUE))
                ELSE Spawn(Child(FallbackCmdFree(c, TimeStrToSecondsFree(frames).val),
                                 "_run_cmd", TRUE, "fallback"))
          [] at = "fallback" -> Return(RetBool(RunCmdFree(outcome)))

\* slip: the index tested for truth, as the legacy code does
WavCmdFreeTruthyIndex(c) ==
    OptimizedFree \o <<Lit("-i"), Lit(c.video_path), Lit("-vn")>>
      \o (IF c.index # "None" /\ c.index # ""
          THEN <<Lit("-map"), Lit("0:a:" \o c.index)>> ELSE <<>>)
      \o <<Lit("-acodec"), Lit("pcm_s16le"), Lit("-ac"), Lit("1"),
           Lit("-ar"), Lit("16000"),
           Lit("-threads"), Lit(ToString(c.threads)), Lit(c.out_path)>>

WavCmdFree(c) ==
    OptimizedFree \o <<Lit("-i"), Lit(c.video_path), Lit("-vn")>>
      \o (IF c.index # "None"
          THEN <<Lit("-map"), Lit("0:a:" \o c.index)>> ELSE <<>>)
      \o <<Lit("-acodec"), Lit("pcm_s16le"), Lit("-ac"), Lit("1"),
           Lit("-ar"), Lit("16000"),
           Lit("-threads"), Lit(ToString(c.threads)), Lit(c.out_path)>>

ExtractWavFreeStart(c) ==
    IF c.video_path = "" \/ c.out_path = "" THEN Return(RetBool(FALSE))
    ELSE IF ~c.found THEN Return(RetBool(FALSE))
    ELSE Spawn(Child(WavCmdFree(c), "_run_cmd", TRUE, "single"))

ExtractWavFreeResume(c, at, outcome, out) == Return(RetBool(RunCmdFree(outcome)))

ProbeCmdFree(c) ==
    <<Lit("ffprobe"), Lit("-v"), Lit("quiet"), Lit("-print_format"),
      Lit("json"), Lit("-show_format"), Lit("-show_streams"),
      Lit(c.video_path)>>

GetMetadataFreeStart(c) ==
    IF c.video_path = "" THEN Return(RetNone)
    ELSE IF ~c.found THEN Return(RetNone)
    ELSE Spawn(Child(ProbeCmdFree(c), "subprocess.run", TRUE, "probe"))

GetMetadataFreeResume(c, at, outcome, out) ==
    IF outcome = "exit0" /\ out = "json" THEN Return(RetDict)
    ELSE Return(RetNone)

SubCmdFree(c) ==
    OptimizedFree \o <<Lit("-i"), Lit(c.video_path)>>
      \o (IF c.index # "None"
          THEN <<Lit("-map"), Lit("0:s:" \o c.index)>> ELSE <<>>)
      \o <<Lit("-c:s"), Lit("copy"),
           Lit("-threads"), Lit(ToString(c.threads)), Lit(c.out_path)>>

ExtractSubtitleFreeStart(c) ==
    IF c.video_path = "" \/ c.out_path = "" THEN Return(RetBool(FALSE))
    ELSE IF ~c.found THEN Return(RetBool(FALSE))
    ELSE Spawn(Child(SubCmdFree(c), "_run_cmd", TRUE, "single"))

ExtractSubtitleFreeResume(c, at, outcome, out) ==
    Return(RetBool(RunCmdFree(outcome)))

(***************************************************************************)
(* The calls a caller can make, and what the environment can hand them     *)
(***************************************************************************)
Classes == {"FfmpegHelper2", "FfmpegHelper"}
VideoPaths == {"", "movie.mkv"}
OutPaths == {"", "out"}
Frames == TimeStrings \cup {NoneStr}
Offsets == {(0 - 2) * Unit, 0, Unit \div 2, DEFAULT_PRESEEK_OFFSET * Unit}
ThreadCounts == {DEFAULT_THREADS, 4}
Overrides == {"None", "True", "False"}
Envs == {"unset", "0", "1"}
Indexes == {"None", "", "1"}

NoCall ==
    [cls |-> "none", op |-> "none", video_path |-> "", out_path |-> "",
     frames |-> NoneStr, threads |-> DEFAULT_THREADS,
     preseek_offset |-> DEFAULT_PRESEEK_OFFSET * Unit,
     enable_optimizations |-> "None", env |-> "unset", index |-> "None",
     found |-> FALSE]

\* FfmpegHelper takes no enable_optimizations and reads no environment
Switches(cls) ==
    IF cls = "FfmpegHelper2" THEN Overrides \X Envs ELSE {<<"None", "unset">>}

Pending(ch) == [argv |-> ch.argv, via |-> ch.via, timed |-> ch.timed,
                at |-> ch.at, outcome |-> "pending", out |-> ""]

Begin(c, step) ==
    /\ call' = c
    /\ ret' = step.ret
    /\ child' = step.child
    /\ ran' = IF step.child = NoChild THEN <<>> ELSE <<Pending(step.child)>>
    /\ pc' = IF step.raised THEN "raised"
             ELSE IF step.child = NoChild THEN "returned" ELSE "running"

GetThumb ==
    /\ pc = "idle"
    /\ \E cls \in Classes, v \in VideoPaths, o \in OutPaths, fr \in Frames,
          th \in ThreadCounts, off \in Offsets, found \in BOOLEAN :
         \E sw \in Switches(cls) :
           LET c == [NoCall EXCEPT !.cls = cls, !.op = "get_thumb",
                       !.video_path = v, !.out_path = o, !.frames = fr,
                       !.threads = th, !.preseek_offset = off,
                       !.enable_optimizations = sw[1], !.env = sw[2],
                       !.found = found]
           IN  Begin(c, IF cls = "FfmpegHelper2" THEN GetThumbStart(c)
                        ELSE GetThumbFreeStart(c))

ExtractWav ==
    /\ pc = "idle"
    /\ \E cls \in Classes, v \in VideoPaths, o \in OutPaths, ix \in Indexes,
          th \in ThreadCounts, found \in BOOLEAN :
         \E sw \in Switches(cls) :
           LET c == [NoCall EXCEPT !.cls = cls, !.op = "extract_wav",
                       !.video_path = v, !.out_path = o, !.index = ix,
                       !.threads = th,
                       !.enable_optimizations = sw[1], !.env = sw[2],
                       !.found = found]
           IN  Begin(c, IF cls = "FfmpegHelper2" THEN ExtractWavStart(c)
                        ELSE ExtractWavFreeStart(c))

ExtractSubtitle ==
    /\ pc = "idle"
    /\ \E cls \in Classes, v \in VideoPaths, o \in OutPaths, ix \in Indexes,
          th \in ThreadCounts, found \in BOOLEAN :
         \E sw \in Switches(cls) :
           LET c == [NoCall EXCEPT !.cls = cls, !.op = "extract_subtitle",
                       !.video_path = v, !.out_path = o, !.index = ix,
                       !.threads = th,
                       !.enable_optimizations = sw[1], !.env = sw[2],
                       !.found = found]
           IN  Begin(c, IF cls = "FfmpegHelper2" THEN ExtractSubtitleStart(c)
                        ELSE ExtractSubtitleFreeStart(c))

GetMetadata ==
    /\ pc = "idle"
    /\ \E cls \in Classes, v \in VideoPaths, found \in BOOLEAN :
           LET c == [NoCall EXCEPT !.cls = cls, !.op = "get_metadata",
                       !.video_path = v, !.found = found]
           IN  Begin(c, IF cls = "FfmpegHelper2" THEN GetMetadataStart(c)
                        ELSE GetMetadataFreeStart(c))

\* _time_str_to_seconds called on its own
ParseTime ==
    /\ pc = "idle"
    /\ \E cls \in Classes, s \in TimeStrings :
           LET c == [NoCall EXCEPT !.cls = cls, !.op = "_time_str_to_seconds",
                       !.frames = s]
               r == IF cls = "FfmpegHelper2" THEN TimeStrToSeconds(s)
                    ELSE TimeStrToSecondsFree(s)
           IN  Begin(c, Return(IF r.none THEN RetNone ELSE RetFloat(r.val)))

\* the handler of the call in progress, resumed after its child ended
Resume(c, at, outcome, out) ==
    IF c.cls = "FfmpegHelper2"
    THEN CASE c.op = "get_thumb" -> GetThumbResume(c, at, outcome, out)
           [] c.op = "extract_wav" -> ExtractWavResume(c, at, outcome, out)
           [] c.op = "extract_subtitle" -> ExtractSubtitleResume(c, at, outcome, out)
           [] c.op = "get_metadata" -> GetMetadataResume(c, at, outcome, out)
    ELSE CASE c.op = "get_thumb" -> GetThumbFreeResume(c, at, outcome, out)
           [] c.op = "extract_wav" -> ExtractWavFreeResume(c, at, outcome, out)
           [] c.op = "extract_subtitle" -> ExtractSubtitleFreeResume(c, at, outcome, out)
           [] c.op = "get_metadata" -> GetMetadataFreeResume(c, at, outcome, out)

ChildEnds(outcome, out) ==
    LET step == Resume(call, child.at, outcome, out)
        done == [ran EXCEPT ![Len(ran)].outcome = outcome, ![Len(ran)].out = out]
    IN  /\ pc = "running"
        /\ ret' = step.ret
        /\ child' = step.child
        /\ ran' = IF step.child = NoChild THEN done
                  ELSE Append(done, Pending(step.child))
        /\ pc' = IF step.raised THEN "raised"
                 ELSE IF step.child = NoChild THEN "returned" ELSE "running"
        /\ UNCHANGED call

\* what the child can have written to stdout when it exits
Stdout(at, outcome) ==
    CASE at = "probe" -> {"json", "garbage"}
      [] at = "legacy_thumb" -> {"", "line"}
      [] OTHER -> {""}

\* the child exits by itself, with code 0 or not
ChildExits ==
    \E outcome \in {"exit0", "exit1"} :
      \E out \in Stdout(child.at, outcome) : ChildEnds(outcome, out)

\* subprocess.run(..., timeout=timeout) kills the child and raises TimeoutExpired
ChildTimesOut == child.timed /\ ChildEnds("timeout", "")

\* subprocess.run raises before the child runs (OSError, ValueError)
ChildFailsToLaunch ==
    child.via # "SystemUtils.execute" /\ ChildEnds("launch_error", "")

\* the caller takes the result
Finish ==
    /\ pc \in {"returned", "raised"}
    /\ pc' = "idle"
    /\ call' = NoCall
    /\ child' = NoChild
    /\ ran' = <<>>
    /\ ret' = NoRet

Init ==
    /\ pc = "idle"
    /\ call = NoCall
    /\ child = NoChild
    /\ ran = <<>>
    /\ ret = NoRet

Next ==
    \/ GetThumb
    \/ ExtractWav
    \/ ExtractSubtitle
    \/ GetMetadata
    \/ ParseTime
    \/ ChildExits
    \/ ChildTimesOut
    \/ ChildFailsToLaunch
    \/ Finish

Spec == Init /\ [][Next]_vars

(***************************************************************************)
(* Reading a command line                                                  *)
(***************************************************************************)
InputAt(argv) == CHOOSE j \in DOMAIN argv : argv[j] = Lit("-i")
SsAt(argv) == {i \in DOMAIN argv : argv[i] = Lit("-ss")}
SsBefore(argv) == {i \in SsAt(argv) : i < InputAt(argv)}
SsAfter(argv) == {i \in SsAt(argv) : i > InputAt(argv)}
HasInput(argv) == \E j \in DOMAIN argv : argv[j] = Lit("-i")

\* one -ss before -i (coarse) and one after it (fine)
IsTwoStage(argv) ==
    HasInput(argv) /\ Cardinality(SsBefore(argv)) = 1
                   /\ Cardinality(SsAfter(argv)) = 1
\* a single -ss, after -i
IsPrecise(argv) ==
    HasInput(argv) /\ SsBefore(argv) = {} /\ Cardinality(SsAfter(argv)) = 1

Coarse(argv) == argv[(CHOOSE i \in SsBefore(argv) : TRUE) + 1]
Fine(argv) == argv[(CHOOSE i \in SsAfter(argv) : TRUE) + 1]

OneFrame(argv) ==
    /\ Cardinality({i \in DOMAIN argv : argv[i] = Lit("-vframes")}) = 1
    /\ \E i \in DOMAIN argv :
          argv[i] = Lit("-vframes") /\ i < Len(argv) /\ argv[i + 1] = Lit("1")

\* a -ss value below zero: a negative number, or a verbatim string with a sign
SsNegative(tok) ==
    \/ tok.kind = "num" /\ tok.num < 0
    \/ tok.kind = "time" /\ tok.time # <<>> /\ Head(tok.time) \in NegativeTokens

Failed(outcome) == outcome \in {"exit1", "timeout", "launch_error"}

\* the switch as the caller set it: the override, else the toggle (off only at "0")
SwitchOn ==
    \/ call.cls = "FfmpegHelper"
    \/ call.enable_optimizations = "True"
    \/ call.enable_optimizations = "None" /\ call.env # "0"

Thumb == call.op = "get_thumb"
Ready == call.video_path # "" /\ call.out_path # "" /\ call.found
\* the target the call asked for, parsed
Target == TimeStrToSeconds(FramesOrDefault(call.frames))

(***************************************************************************)
(* C1: on the optimized path get_thumb runs the precise-seek fallback      *)
(* exactly when its two-stage command ran and failed (non-zero exit,       *)
(* timeout or launch error), and then returns the fallback's outcome; a    *)
(* two-stage command that succeeds ends the call with success; no call     *)
(* runs a second fallback or a third process.                              *)
(***************************************************************************)
C1_FallbackExactlyOnce ==
    Thumb =>
      /\ Len(ran) <= 2
      /\ (Len(ran) = 2) <=>
            (Len(ran) >= 1 /\ IsTwoStage(ran[1].argv) /\ Failed(ran[1].outcome))
      /\ Len(ran) = 2 =>
            /\ IsPrecise(ran[2].argv)
            /\ Fine(ran[2].argv) = Num(Target.val)
            /\ pc = "returned" => ret = RetBool(ran[2].outcome = "exit0")
            /\ pc = "running" <=> ran[2].outcome = "pending"
      /\ (Len(ran) >= 1 /\ IsTwoStage(ran[1].argv) /\ ran[1].outcome = "exit0") =>
            pc = "returned" /\ ret = RetBool(TRUE)

C1_Witness ==
    /\ Thumb /\ pc = "returned" /\ Len(ran) = 2
    /\ ran[1].outcome = "timeout" /\ ran[2].outcome = "exit0"
    /\ ret = RetBool(TRUE)

(***************************************************************************)
(* C2 as written: for a parsed target t and offset o with t > o > 0 the    *)
(* first command of the optimized path is the two-stage plan with coarse   *)
(* -ss t-o before -i and fine -ss o after -i, and one output frame.        *)
(***************************************************************************)
C2_Case ==
    /\ Thumb /\ SwitchOn /\ Ready /\ ~Target.none
    /\ Target.val > call.preseek_offset /\ call.preseek_offset > 0

C3_NoNegativeSeek ==
    Thumb =>
      /\ (SwitchOn /\ Ready /\ ~Target.none
             /\ Target.val <= call.preseek_offset) =>
            /\ Len(ran) = 1
            /\ IsPrecise(ran[1].argv)
            /\ Fine(ran[1].argv) = Num(Target.val)
      /\ \A k \in DOMAIN ran : \A i \in SsAt(ran[k].argv) :
            ~SsNegative(ran[k].argv[i + 1])

(***************************************************************************)
(* C4: FfmpegHelper2.get_thumb takes the per-call override when given and  *)
(* the process-wide toggle (on by default) otherwise; with the switch off, *)
(* or the offset zero or negative, every command of the call is a single   *)
(* precise-seek plan and never the two-stage plan.                         *)
(***************************************************************************)
C4_SwitchOffNeverTwoStage ==
    (Thumb /\ call.cls = "FfmpegHelper2") =>
      /\ Len(ran) >= 1 =>
            (ran[1].via = "SystemUtils.execute" <=> ~SwitchOn)
      /\ (~SwitchOn \/ call.preseek_offset <= 0) =>
            \A k \in DOMAIN ran :
              IsPrecise(ran[k].argv) /\ ~IsTwoStage(ran[k].argv)

\* the override switches the call off although the toggle is on
C4_Witness ==
    /\ Thumb /\ call.cls = "FfmpegHelper2" /\ Ready
    /\ call.enable_optimizations = "False" /\ call.env = "1"
    /\ ~Target.none /\ Target.val > call.preseek_offset
    /\ call.preseek_offset > 0
    /\ pc = "returned" /\ Len(ran) = 1 /\ IsPrecise(ran[1].argv)

(***************************************************************************)
(* C5: get_thumb returns success only if the last ffmpeg process it ran    *)
(* exited with code 0 within the timeout, and failure otherwise; with      *)
(* optimizations disabled the exit status of the single command is the     *)
(* result.                                                                 *)
(***************************************************************************)
C5_ResultIsExitStatus ==
    (Thumb /\ pc = "returned" /\ Len(ran) >= 1) =>
      /\ ret.kind = "bool"
      /\ ret.b => ran[Len(ran)].outcome = "exit0"
      /\ ~SwitchOn => (ret.b <=> ran[Len(ran)].outcome = "exit0")

(***************************************************************************)
(* C6: no public operation, in either class and either mode, lets a fault  *)
(* reach its caller; every failure ends the call with False or None.       *)
(***************************************************************************)
C6_NoFaultReachesCaller == pc # "raised"

(***************************************************************************)
(* C7: get_thumb returns failure without starting a child process when the *)
(* source or destination path is empty or ffmpeg is not on the search      *)
(* path, whatever the timestamp, offset and switch.                        *)
(***************************************************************************)
C7_PreconditionsFailFast ==
    (Thumb /\ ~Ready) =>
      pc = "returned" /\ ret = RetBool(FALSE) /\ ran = <<>> /\ child = NoChild

\* both paths given, ffmpeg missing
C7_Witness ==
    /\ Thumb /\ ~call.found /\ call.video_path # "" /\ call.out_path # ""
    /\ pc = "returned" /\ ret = RetBool(FALSE) /\ ran = <<>>

(***************************************************************************)
(* C8: every get_thumb and get_metadata call, and every optimized          *)
(* extract_wav / extract_subtitle call, returns even if its child never    *)
(* exits: while such a call waits for a child, the timeout that ends the   *)
(* child is armed.                                                         *)
(***************************************************************************)
C8_InScope ==
    \/ call.op \in {"get_thumb", "get_metadata"}
    \/ call.op \in {"extract_wav", "extract_subtitle"} /\ SwitchOn

C8_EveryChildTimed ==
    (pc = "running" /\ C8_InScope) => (child.timed /\ ENABLED ChildTimesOut)

(***************************************************************************)
(* C9: _time_str_to_seconds returns the left-to-right fold                 *)
(* total*60 + segment ("01:02:03" -> 3723, "02:03" -> 123, "45" -> 45)     *)
(* exactly when every segment parses as a non-negative number, and None    *)
(* (never a fault) otherwise, the empty string included.                   *)
(***************************************************************************)
C9_NonNegative(s) ==
    \A i \in DOMAIN s : FloatOf(s[i]).ok /\ FloatOf(s[i]).val >= 0

C9_ParserContract ==
    (call.op = "_time_str_to_seconds" /\ pc # "idle") =>
      /\ pc = "returned"
      /\ IF C9_NonNegative(call.frames)
         THEN ret = RetFloat(Fold(call.frames, 0))
         ELSE ret = RetNone
      /\ call.frames = <<"01", "02", "03">> => ret = RetFloat(3723 * Unit)
      /\ call.frames = <<"02", "03">> => ret = RetFloat(123 * Unit)
      /\ call.frames = <<"45">> => ret = RetFloat(45 * Unit)
      /\ call.frames \in {<<"">>, <<"abc">>} => ret = RetNone

(***************************************************************************)
(* C10: get_metadata returns a mapping only when ffprobe was found, exited *)
(* with code 0 within the timeout and wrote JSON; on an empty path, a      *)
(* missing ffprobe, a timeout, a non-zero exit or malformed output it      *)
(* returns None, raises nothing, and runs at most one child process.       *)
(***************************************************************************)
C10_MetadataOrNone ==
    call.op = "get_metadata" =>
      /\ pc # "raised"
      /\ Len(ran) <= 1
      /\ pc = "returned" =>
            /\ ret \in {RetDict, RetNone}
            /\ ret = RetDict =>
                  /\ call.found /\ call.video_path # "" /\ Len(ran) = 1
                  /\ ran[1].outcome = "exit0" /\ ran[1].out = "json"
            /\ (call.video_path = "" \/ ~call.found) => ret = RetNone /\ ran = <<>>
            /\ (Len(ran) = 1 /\ (ran[1].outcome # "exit0" \/ ran[1].out # "json"))
                  => ret = RetNone

\* ffprobe exited with code 0 and its output was not JSON
C10_Witness ==
    /\ call.op = "get_metadata" /\ pc = "returned" /\ Len(ran) = 1
    /\ ran[1].outcome = "exit0" /\ ran[1].out = "garbage"
    /\ ret = RetNone

(***************************************************************************)
(* C11: FfmpegHelper and FfmpegHelper2 with the switch on are equivalent:  *)
(* given the same arguments and the same sequence of child-process         *)
(* outcomes, get_thumb, extract_wav, extract_subtitle and get_metadata     *)
(* build the same sequence of commands and return the same result.         *)
(***************************************************************************)
PublicOps == {"get_thumb", "extract_wav", "extract_subtitle", "get_metadata"}

\* the call c up to its first child, in the class c names
StartOf(c) ==
    IF c.cls = "FfmpegHelper2"
    THEN CASE c.op = "get_thumb" -> GetThumbStart(c)
           [] c.op = "extract_wav" -> ExtractWavStart(c)
           [] c.op = "extract_subtitle" -> ExtractSubtitleStart(c)
           [] c.op = "get_metadata" -> GetMetadataStart(c)
    ELSE CASE c.op = "get_thumb" -> GetThumbFreeStart(c)
           [] c.op = "extract_wav" -> ExtractWavFreeStart(c)
           [] c.op = "extract_subtitle" -> ExtractSubtitleFreeStart(c)
           [] c.op = "get_metadata" -> GetMetadataFreeStart(c)

\* the same call made on the other class, the switch set to enabled
Twin(c) ==
    IF c.cls = "FfmpegHelper2"
    THEN [c EXCEPT !.cls = "FfmpegHelper", !.enable_optimizations = "None",
                   !.env = "unset"]
    ELSE [c EXCEPT !.cls = "FfmpegHelper2", !.enable_optimizations = "True"]

\* what a call shows: its commands with their outcomes, and how it ended
Shown(cmds, r, waiting, raised) ==
    [cmds |-> cmds, ret |-> r, waiting |-> waiting, raised |-> raised]

Cmds(history) ==
    [k \in DOMAIN history |->
       [argv |-> history[k].argv, timed |-> history[k].timed,
        outcome |-> history[k].outcome, out |-> history[k].out]]

\* the call c replayed against the first k outcomes the running call met
RECURSIVE Replay(_, _)
Replay(c, k) ==
    IF k = 0
    THEN LET s == StartOf(c)
         IN  [hist |-> IF s.child = NoChild THEN <<>> ELSE <<Pending(s.child)>>,
              ret |-> s.ret, child |-> s.child, raised |-> s.raised]
    ELSE LET prev == Replay(c, k - 1)
         IN  IF prev.child = NoChild
             THEN [hist |-> <<>>, ret |-> NoRet, child |-> NoChild, raised |-> TRUE]
             ELSE LET s == Resume(c, prev.child.at, ran[k].outcome, ran[k].out)
                      done == [prev.hist EXCEPT ![k].outcome = ran[k].outcome,
                                                ![k].out = ran[k].out]
                  IN  [hist |-> IF s.child = NoChild THEN done
                                ELSE Append(done, Pending(s.child)),
                       ret |-> s.ret, child |-> s.child, raised |-> s.raised]

Ended == Cardinality({k \in DOMAIN ran : ran[k].outcome # "pending"})

TwinShown ==
    LET r == Replay(Twin(call), Ended)
    IN  Shown(Cmds(r.hist), r.ret, r.child # NoChild, r.raised)

C11_VariantsEquivalent ==
    (call.op \in PublicOps /\ SwitchOn) =>
      Shown(Cmds(ran), ret, pc = "running", pc = "raised") = TwinShown

\* FfmpegHelper2, switched on by the environment, went through the fallback
C11_Witness ==
    /\ call.cls = "FfmpegHelper2" /\ call.op = "get_thumb"
    /\ call.enable_optimizations = "None" /\ call.env = "1"
    /\ pc = "returned" /\ Len(ran) = 2 /\ ret = RetBool(FALSE)
    /\ TwinShown = Shown(Cmds(ran), ret, FALSE, FALSE)

====
